---- MODULE Spec2Model ----
(***************************************************************************)
(* Model of qurveros.optspacecurve.OptimizableSpaceCurve: the resilient    *)
(* optimization loop (optimize), its validator and perturbation helpers,   *)
(* and the string-indexed history accessor (__getitem__).                  *)
(***************************************************************************)
EXTENDS Integers, Sequences, FiniteSets, TLC

(***************************************************************************)
(* Bounds of the model.                                                    *)
(***************************************************************************)
MaxIter == 2
MaxRetries == 2
MaxCheckFreq == 2
MaxTextLen == 7
KeyMod == 7
FloatMax == 2

(***************************************************************************)
(* Values.  An array element is a float: finite (an integer of magnitude   *)
(* at most FloatMax here), NaN, +Inf or -Inf.  A parameter tree is either  *)
(* one array [a, b] (a single leaf) or a dict {a: [.], b: [.]} (two        *)
(* leaves); None is "not set".                                             *)
(***************************************************************************)
Fin(n) == [k |-> "fin", v |-> n]
NaN == [k |-> "nan", v |-> 0]
PosInf == [k |-> "inf", v |-> 0]
NegInf == [k |-> "-inf", v |-> 0]

\* the float an exact result rounds to: beyond the largest finite value
\* the result overflows to an infinity
Float(n) == IF n > FloatMax THEN PosInf
            ELSE IF n < 0 - FloatMax THEN NegInf
            ELSE Fin(n)

None == [def |-> "none", a |-> Fin(0), b |-> Fin(0)]
NoHistory == <<None>>

TreeDefs == {"array", "dict"}
Elements == {<<Fin(1), Fin(1)>>, <<Fin(FloatMax), Fin(1)>>,
             <<NaN, Fin(1)>>, <<Fin(1), PosInf>>}
Trees == {[def |-> d, a |-> e[1], b |-> e[2]] : d \in TreeDefs, e \in Elements}

\* float multiplication and addition with IEEE special values
FloatMul(x, y) ==
    IF x.k = "nan" \/ y.k = "nan" THEN NaN
    ELSE IF x.k = "fin" /\ y.k = "fin" THEN Float(x.v * y.v)
    ELSE IF (x.k = "fin" /\ x.v = 0) \/ (y.k = "fin" /\ y.v = 0) THEN NaN
    ELSE LET neg(z) == (z.k = "-inf") \/ (z.k = "fin" /\ z.v < 0)
         IN  IF neg(x) = neg(y) THEN PosInf ELSE NegInf

FloatAdd(x, y) ==
    IF x.k = "nan" \/ y.k = "nan" THEN NaN
    ELSE IF x.k = "fin" /\ y.k = "fin" THEN Float(x.v + y.v)
    ELSE IF x.k = "fin" THEN y
    ELSE IF y.k = "fin" THEN x
    ELSE IF x.k = y.k THEN x ELSE NaN

\* jax.tree_util: the leaves of a tree, each leaf an array of elements
TreeLeaves(tree) ==
    IF tree.def = "array" THEN << <<tree.a, tree.b>> >>
    ELSE IF tree.def = "dict" THEN << <<tree.a>>, <<tree.b>> >>
    ELSE << >>

TreeUnflatten(def, leaves) ==
    IF def = "array" THEN [def |-> def, a |-> leaves[1][1], b |-> leaves[1][2]]
    ELSE [def |-> def, a |-> leaves[1][1], b |-> leaves[2][1]]

(***************************************************************************)
(* _is_params_valid: every leaf all-finite, reduced with logical_and.      *)
(***************************************************************************)
is_finite_leaf(x) == \A i \in 1..Len(x) : x[i].k = "fin"

RECURSIVE tree_reduce_and(_, _)
tree_reduce_and(flags, acc) ==
    IF flags = << >> THEN acc
    ELSE tree_reduce_and(Tail(flags), acc /\ Head(flags))

_is_params_valid(params) ==
    LET leaves == TreeLeaves(params)
        finite_flags == [i \in 1..Len(leaves) |-> is_finite_leaf(leaves[i])]
    IN  tree_reduce_and(finite_flags, TRUE)

ValidTrees == {t \in Trees : _is_params_valid(t)}

(***************************************************************************)
(* The random stream: a key is a number; split and normal are              *)
(* deterministic functions of the key.                                     *)
(***************************************************************************)
PRNGKey(seed) == seed % KeyMod

split(key, num) == [i \in 1..num |-> (key * 3 + i) % KeyMod]

normal(key, shape) == [i \in 1..shape |-> Fin(((key + i) % 3) - 1)]

(***************************************************************************)
(* _create_perturbed_params: every leaf gets its own key and additive      *)
(* noise scaled by the magnitude.                                          *)
(***************************************************************************)
add_noise_to_leaf(leaf, key, magnitude) ==
    LET noise == normal(key, Len(leaf))
    IN  [i \in 1..Len(leaf) |-> FloatAdd(leaf[i], FloatMul(noise[i], magnitude))]

_create_perturbed_params(base_params, magnitude, key) ==
    LET leaves == TreeLeaves(base_params)
        num_leaves == Len(leaves)
        keys == split(key, num_leaves)
    IN  TreeUnflatten(base_params.def,
            [i \in 1..num_leaves |-> add_noise_to_leaf(leaves[i], keys[i], magnitude)])

(***************************************************************************)
(* The settings registry (qurveros.settings.settings.options) and the      *)
(* optimizer, an opaque collaborator: its state counts the updates made.   *)
(***************************************************************************)
Magnitudes == {Fin(1), PosInf}
Verbosities == 0..2
RetryCounts == {0, 1, MaxRetries}
CheckFrequencies == {1, MaxCheckFreq}
SettingsDomain ==
    [MAX_OPTIMIZATION_RETRIES : RetryCounts,
     PERTURBATION_MAGNITUDE : Magnitudes,
     OPTIMIZATION_VERBOSITY : Verbosities,
     NUMERICAL_CHECK_FREQUENCY : CheckFrequencies]

optimizer_init(p) == 0

\* what one call of the jitted step can do: raise, or return a new pair
StepOutcomes(p, state) ==
    {[raised |-> TRUE, new_params |-> None, new_opt_state |-> state]}
    \cup {[raised |-> FALSE, new_params |-> t, new_opt_state |-> state + 1] :
            t \in {u \in Trees : u.def = p.def}}

Event(ev, it, n) == [ev |-> ev, it |-> it, n |-> n]

VARIABLES
    settings,             \* settings.options
    self_params,          \* self.params
    self_params_history,  \* self.params_history
    pc,                   \* "idle", "loop" (inside optimize), "done", "raised"
    error,                \* the exception the last call propagated
    max_iter, max_retries, perturbation_mag, verbosity, check_freq,
    params, opt_state, last_valid_params, last_valid_opt_state,
    rng_key, params_history, iteration,
    diag,                 \* diagnostics emitted by the current optimize call
    candidates,           \* perturbed candidates produced by the current call
    step_log,             \* outcomes of the step calls of the current call
    query                 \* the last string-indexed query and what it returned

object == <<self_params, self_params_history>>
config == <<max_iter, max_retries, perturbation_mag, verbosity, check_freq>>
frame == <<params, opt_state, last_valid_params, last_valid_opt_state,
           rng_key, params_history, iteration>>
trace == <<diag, candidates, step_log>>
vars == <<settings, object, pc, error, config, frame, trace, query>>

NoQuery == [text |-> << >>, kind |-> "none", param_value |-> << >>,
            loss_value |-> << >>, loss_grad_value |-> << >>]

\* no optimize frame exists: the locals hold nothing
NoFrame ==
    /\ max_iter = 0 /\ max_retries = 0 /\ perturbation_mag = Fin(0)
    /\ verbosity = 0 /\ check_freq = 1
    /\ params = None /\ opt_state = 0
    /\ last_valid_params = None /\ last_valid_opt_state = 0
    /\ rng_key = 0 /\ params_history = << >> /\ iteration = 0
    /\ diag = << >> /\ candidates = << >> /\ step_log = << >>

\* __init__ (params=None): nothing set, no history
Init ==
    /\ settings \in SettingsDomain
    /\ self_params = None
    /\ self_params_history = NoHistory
    /\ pc = "idle"
    /\ error = "none"
    /\ NoFrame
    /\ query = NoQuery

\* the optimize frame is gone: a later call starts from fresh locals
DropFrame ==
    /\ max_iter' = 0 /\ max_retries' = 0 /\ perturbation_mag' = Fin(0)
    /\ verbosity' = 0 /\ check_freq' = 1
    /\ params' = None /\ opt_state' = 0
    /\ last_valid_params' = None /\ last_valid_opt_state' = 0
    /\ rng_key' = 0 /\ params_history' = << >> /\ iteration' = 0
    /\ diag' = << >> /\ candidates' = << >> /\ step_log' = << >>

Callable == pc \in {"idle", "done", "raised"}

(***************************************************************************)
(* set_params of the parent class SpaceCurve: installs the parameters.     *)
(***************************************************************************)
set_params(p) == self_params' = p

(***************************************************************************)
(* initialize_parameters(init_params)                                      *)
(***************************************************************************)
InitializeParameters(init_params) ==
    /\ Callable
    /\ IF init_params # None THEN set_params(init_params)
                             ELSE UNCHANGED self_params
    /\ pc' = "idle"
    /\ error' = "none"
    /\ DropFrame
    /\ UNCHANGED <<settings, self_params_history, query>>

(***************************************************************************)
(* _log_retry_attempt: reads the verbosity from the registry when called.  *)
(***************************************************************************)
_log_retry_attempt(it, retry_count) ==
    LET v == settings.OPTIMIZATION_VERBOSITY
    IN  (IF v >= 1 THEN <<Event("retry_warning", it, retry_count)>> ELSE << >>)
        \o (IF v >= 2 THEN <<Event("retry_debug", it, retry_count)>> ELSE << >>)

(***************************************************************************)
(* optimize, the retry loop of one recovery (for retry in range(...)).     *)
(* f holds the locals of the call; the loop ends at the first valid        *)
(* candidate (break) or when the retries are used up.                      *)
(***************************************************************************)
\* retry_loop that perturbs the current (invalid) params
RECURSIVE retry_loop_perturb_current(_, _)
retry_loop_perturb_current(retry, f) ==
    IF retry >= f.max_retries \/ f.recovery_successful THEN f
    ELSE LET logged == f.diag \o _log_retry_attempt(f.iteration, retry + 1)
             keys == split(f.rng_key, 2)
             cand == _create_perturbed_params(
                         f.params, f.perturbation_mag, keys[2])
             ok == _is_params_valid(cand)
         IN  retry_loop_perturb_current(retry + 1,
                 [f EXCEPT !.rng_key = keys[1],
                           !.params = cand,
                           !.opt_state = f.last_valid_opt_state,
                           !.candidates = Append(@, cand),
                           !.recovery_successful = ok,
                           !.diag = IF ok /\ f.verbosity >= 1
                                    THEN Append(logged, Event("recovered", f.iteration, retry + 1))
                                    ELSE logged])

RECURSIVE retry_loop(_, _)
retry_loop(retry, f) ==
    IF retry >= f.max_retries \/ f.recovery_successful THEN f
    ELSE LET logged == f.diag \o _log_retry_attempt(f.iteration, retry + 1)
             keys == split(f.rng_key, 2)
             cand == _create_perturbed_params(
                         f.last_valid_params, f.perturbation_mag, keys[2])
             ok == _is_params_valid(cand)
         IN  retry_loop(retry + 1,
                 [f EXCEPT !.rng_key = keys[1],
                           !.params = cand,
                           !.opt_state = f.last_valid_opt_state,
                           !.candidates = Append(@, cand),
                           !.recovery_successful = ok,
                           !.diag = IF ok /\ f.verbosity >= 1
                                    THEN Append(logged, Event("recovered", f.iteration, retry + 1))
                                    ELSE logged])

\* stability_check that tests the params in every pass
stability_check_every_pass(f) ==
    IF ~_is_params_valid(f.params)
    THEN LET r == retry_loop(0, [f EXCEPT !.recovery_successful = FALSE])
         IN  IF r.recovery_successful THEN r
             ELSE [r EXCEPT !.diag = IF f.verbosity >= 0
                                     THEN Append(@, Event("critical", f.iteration, f.max_retries))
                                     ELSE @,
                            !.params = f.last_valid_params,
                            !.opt_state = f.last_valid_opt_state]
    ELSE f

\* stability_check that reports the failed recovery at verbosity >= 1 only
stability_check_quiet(f) ==
    IF f.iteration % f.check_freq = 0 /\ ~_is_params_valid(f.params)
    THEN LET r == retry_loop(0, [f EXCEPT !.recovery_successful = FALSE])
         IN  IF r.recovery_successful THEN r
             ELSE [r EXCEPT !.diag = IF f.verbosity >= 1
                                     THEN Append(@, Event("critical", f.iteration, f.max_retries))
                                     ELSE @,
                            !.params = f.last_valid_params,
                            !.opt_state = f.last_valid_opt_state]
    ELSE f

\* the periodic numerical stability check and the recovery it starts
stability_check(f) ==
    IF f.iteration % f.check_freq = 0 /\ ~_is_params_valid(f.params)
    THEN LET r == retry_loop(0, [f EXCEPT !.recovery_successful = FALSE])
         IN  IF r.recovery_successful THEN r
             ELSE [r EXCEPT !.diag = IF f.verbosity >= 0
                                     THEN Append(@, Event("critical", f.iteration, f.max_retries))
                                     ELSE @,
                            !.params = f.last_valid_params,
                            !.opt_state = f.last_valid_opt_state]
    ELSE f

\* perform_step with the update of the last known-good pair left out
perform_step_stale_last_valid(f, out) ==
    IF out.raised
    THEN [f EXCEPT !.diag = IF f.verbosity >= 1
                            THEN Append(@, Event("step_failed", f.iteration, 0))
                            ELSE @,
                   !.params = f.last_valid_params,
                   !.opt_state = f.last_valid_opt_state]
    ELSE IF _is_params_valid(out.new_params)
    THEN [f EXCEPT !.params = out.new_params,
                   !.opt_state = out.new_opt_state]
    ELSE [f EXCEPT !.diag = IF f.verbosity >= 1
                            THEN Append(@, Event("invalid_step", f.iteration, 0))
                            ELSE @]

\* perform_step with the validation of the step result left out
perform_step_unvalidated(f, out) ==
    IF out.raised
    THEN [f EXCEPT !.diag = IF f.verbosity >= 1
                            THEN Append(@, Event("step_failed", f.iteration, 0))
                            ELSE @,
                   !.params = f.last_valid_params,
                   !.opt_state = f.last_valid_opt_state]
    ELSE [f EXCEPT !.params = out.new_params,
                   !.opt_state = out.new_opt_state,
                   !.last_valid_params = out.new_params,
                   !.last_valid_opt_state = out.new_opt_state]

\* perform_step that adopts an invalid result as the current pair
perform_step_adopt_invalid(f, out) ==
    IF out.raised
    THEN [f EXCEPT !.diag = IF f.verbosity >= 1
                            THEN Append(@, Event("step_failed", f.iteration, 0))
                            ELSE @,
                   !.params = f.last_valid_params,
                   !.opt_state = f.last_valid_opt_state]
    ELSE IF _is_params_valid(out.new_params)
    THEN [f EXCEPT !.params = out.new_params,
                   !.opt_state = out.new_opt_state,
                   !.last_valid_params = out.new_params,
                   !.last_valid_opt_state = out.new_opt_state]
    ELSE [f EXCEPT !.diag = IF f.verbosity >= 1
                            THEN Append(@, Event("invalid_step", f.iteration, 0))
                            ELSE @,
                   !.params = out.new_params,
                   !.opt_state = out.new_opt_state]

\* perform_step that keeps the current pair when the step raises
perform_step_keep_on_raise(f, out) ==
    IF out.raised
    THEN [f EXCEPT !.diag = IF f.verbosity >= 1
                            THEN Append(@, Event("step_failed", f.iteration, 0))
                            ELSE @]
    ELSE IF _is_params_valid(out.new_params)
    THEN [f EXCEPT !.params = out.new_params,
                   !.opt_state = out.new_opt_state,
                   !.last_valid_params = out.new_params,
                   !.last_valid_opt_state = out.new_opt_state]
    ELSE [f EXCEPT !.diag = IF f.verbosity >= 1
                            THEN Append(@, Event("invalid_step", f.iteration, 0))
                            ELSE @]

\* perform_step that goes back to the initial parameters when the step raises
perform_step_raise_to_initial(f, out) ==
    IF out.raised
    THEN [f EXCEPT !.diag = IF f.verbosity >= 1
                            THEN Append(@, Event("step_failed", f.iteration, 0))
                            ELSE @,
                   !.params = f.params_history[1],
                   !.opt_state = 0]
    ELSE IF _is_params_valid(out.new_params)
    THEN [f EXCEPT !.params = out.new_params,
                   !.opt_state = out.new_opt_state,
                   !.last_valid_params = out.new_params,
                   !.last_valid_opt_state = out.new_opt_state]
    ELSE [f EXCEPT !.diag = IF f.verbosity >= 1
                            THEN Append(@, Event("invalid_step", f.iteration, 0))
                            ELSE @]

\* perform_step that validates the params given to the step, not its result
perform_step_validate_input(f, out) ==
    IF out.raised
    THEN [f EXCEPT !.diag = IF f.verbosity >= 1
                            THEN Append(@, Event("step_failed", f.iteration, 0))
                            ELSE @,
                   !.params = f.last_valid_params,
                   !.opt_state = f.last_valid_opt_state]
    ELSE IF _is_params_valid(f.params)
    THEN [f EXCEPT !.params = out.new_params,
                   !.opt_state = out.new_opt_state,
                   !.last_valid_params = out.new_params,
                   !.last_valid_opt_state = out.new_opt_state]
    ELSE [f EXCEPT !.diag = IF f.verbosity >= 1
                            THEN Append(@, Event("invalid_step", f.iteration, 0))
                            ELSE @]

\* the try block around step(params, opt_state)
perform_step(f, out) ==
    IF out.raised
    THEN [f EXCEPT !.diag = IF f.verbosity >= 1
                            THEN Append(@, Event("step_failed", f.iteration, 0))
                            ELSE @,
                   !.params = f.last_valid_params,
                   !.opt_state = f.last_valid_opt_state]
    ELSE IF _is_params_valid(out.new_params)
    THEN [f EXCEPT !.params = out.new_params,
                   !.opt_state = out.new_opt_state,
                   !.last_valid_params = out.new_params,
                   !.last_valid_opt_state = out.new_opt_state]
    ELSE [f EXCEPT !.diag = IF f.verbosity >= 1
                            THEN Append(@, Event("invalid_step", f.iteration, 0))
                            ELSE @]

\* loop_body that records the snapshot only when the step does not raise
loop_body_snapshot_in_try(f, out) ==
    LET appended == IF out.raised THEN f
                    ELSE [f EXCEPT !.params_history = Append(@, f.params)]
        checked == stability_check(appended)
        stepped == perform_step(checked, out)
    IN  [stepped EXCEPT !.iteration = @ + 1]

\* loop_body that leaves the loop when the step raises
loop_body_break_on_raise(f, out) ==
    LET appended == [f EXCEPT !.params_history = Append(@, f.params)]
        checked == stability_check(appended)
        stepped == perform_step(checked, out)
    IN  [stepped EXCEPT !.iteration = IF out.raised THEN f.max_iter ELSE @ + 1]

\* loop_body that records the snapshot after the step
loop_body_snapshot_after_step(f, out) ==
    LET checked == stability_check(f)
        stepped == perform_step(checked, out)
        appended == [stepped EXCEPT !.params_history = Append(@, stepped.params)]
    IN  [appended EXCEPT !.iteration = @ + 1]

\* one pass of the for loop
loop_body(f, out) ==
    LET appended == [f EXCEPT !.params_history = Append(@, f.params)]
        checked == stability_check(appended)
        stepped == perform_step(checked, out)
    IN  [stepped EXCEPT !.iteration = @ + 1]

Locals ==
    [max_iter |-> max_iter, max_retries |-> max_retries, perturbation_mag |-> perturbation_mag,
     verbosity |-> verbosity, check_freq |-> check_freq,
     params |-> params, opt_state |-> opt_state,
     last_valid_params |-> last_valid_params,
     last_valid_opt_state |-> last_valid_opt_state,
     rng_key |-> rng_key, params_history |-> params_history,
     iteration |-> iteration, diag |-> diag, candidates |-> candidates,
     recovery_successful |-> FALSE]

(***************************************************************************)
(* optimize(max_iter): entry, up to the first pass of the loop.            *)
(***************************************************************************)
NotSet == "RuntimeError: The parameters are not set."
InitialInvalid == "RuntimeError: Initial parameters contain NaN or infinite values."

\* the preconditions with the check of the initial parameters left out
precondition_error_unchecked(p) ==
    IF p = None THEN NotSet ELSE "none"

\* the two fatal preconditions, in the order the code tests them
precondition_error(p) ==
    IF p = None THEN NotSet
    ELSE IF ~_is_params_valid(p) THEN InitialInvalid
    ELSE "none"

\* a history list that goes on from the one the object already holds
stale_history ==
    IF self_params_history = NoHistory THEN << >> ELSE self_params_history

\* params_history = []
empty_history == << >>

\* OptimizeStart that drops the stored history before it tests the parameters
OptimizeStart_resets_history(N) ==
    /\ Callable
    /\ query' = query
    /\ UNCHANGED <<settings, self_params>>
    /\ self_params_history' = NoHistory
    /\ IF precondition_error(self_params) # "none"
       THEN /\ pc' = "raised"
            /\ error' = precondition_error(self_params)
            /\ DropFrame
       ELSE /\ pc' = "loop"
            /\ error' = "none"
            /\ max_iter' = N
            /\ max_retries' = settings.MAX_OPTIMIZATION_RETRIES
            /\ perturbation_mag' = settings.PERTURBATION_MAGNITUDE
            /\ verbosity' = settings.OPTIMIZATION_VERBOSITY
            /\ check_freq' = settings.NUMERICAL_CHECK_FREQUENCY
            /\ params' = self_params
            /\ last_valid_params' = self_params
            /\ last_valid_opt_state' = optimizer_init(self_params)
            /\ rng_key' = PRNGKey(0)
            /\ opt_state' = optimizer_init(self_params)
            /\ params_history' = empty_history
            /\ iteration' = 0
            /\ diag' = << >> /\ candidates' = << >> /\ step_log' = << >>

OptimizeStart(N) ==
    /\ Callable
    /\ query' = query
    /\ UNCHANGED <<settings, object>>
    /\ IF precondition_error(self_params) # "none"
       THEN /\ pc' = "raised"
            /\ error' = precondition_error(self_params)
            /\ DropFrame
       ELSE /\ pc' = "loop"
            /\ error' = "none"
            /\ max_iter' = N
            /\ max_retries' = settings.MAX_OPTIMIZATION_RETRIES
            /\ perturbation_mag' = settings.PERTURBATION_MAGNITUDE
            /\ verbosity' = settings.OPTIMIZATION_VERBOSITY
            /\ check_freq' = settings.NUMERICAL_CHECK_FREQUENCY
            /\ params' = self_params
            /\ last_valid_params' = self_params
            /\ last_valid_opt_state' = optimizer_init(self_params)
            /\ rng_key' = PRNGKey(0)
            /\ opt_state' = optimizer_init(self_params)
            /\ params_history' = empty_history
            /\ iteration' = 0
            /\ diag' = << >> /\ candidates' = << >> /\ step_log' = << >>

(***************************************************************************)
(* optimize: one iteration of the loop, whatever the step does.            *)
(***************************************************************************)
Iterate ==
    /\ pc = "loop"
    /\ iteration < max_iter
    /\ \E checked \in {stability_check(Locals)} :
       \E out \in StepOutcomes(checked.params, checked.opt_state) :
       \E g \in {loop_body(Locals, out)} :
          /\ params' = g.params
          /\ opt_state' = g.opt_state
          /\ last_valid_params' = g.last_valid_params
          /\ last_valid_opt_state' = g.last_valid_opt_state
          /\ rng_key' = g.rng_key
          /\ params_history' = g.params_history
          /\ iteration' = g.iteration
          /\ diag' = g.diag
          /\ candidates' = g.candidates
          /\ step_log' = Append(step_log, out)
    /\ UNCHANGED <<settings, object, pc, error, config, query>>

(***************************************************************************)
(* optimize: after the loop, the terminal snapshot and the installation.   *)
(***************************************************************************)
OptimizeFinish ==
    /\ pc = "loop"
    /\ iteration = max_iter
    /\ params_history' = Append(params_history, params)
    /\ self_params_history' = params_history'
    /\ set_params(params_history'[Len(params_history')])
    /\ pc' = "done"
    /\ UNCHANGED <<settings, error, config, params, opt_state,
                   last_valid_params, last_valid_opt_state, rng_key,
                   iteration, trace, query>>

(***************************************************************************)
(* Python list indexing with an int: negative counts from the end.         *)
(***************************************************************************)
\* indexing that takes no negative index
InRange_no_negative(list, i) == 0 <= i /\ i < Len(list)

InRange(list, i) == -Len(list) <= i /\ i < Len(list)
ListItem(list, i) == IF i >= 0 THEN list[i + 1] ELSE list[Len(list) + i + 1]

(***************************************************************************)
(* update_params_from_opt_history(opt_step)                                *)
(***************************************************************************)
UpdateParamsFromOptHistory(opt_step) ==
    /\ Callable
    /\ IF self_params_history = NoHistory
       THEN /\ error' = "TypeError" /\ pc' = "raised"
            /\ UNCHANGED self_params
       ELSE IF ~InRange(self_params_history, opt_step)
       THEN /\ error' = "IndexError" /\ pc' = "raised"
            /\ UNCHANGED self_params
       ELSE /\ error' = "none" /\ pc' = "idle"
            /\ set_params(ListItem(self_params_history, opt_step))
    /\ DropFrame
    /\ UNCHANGED <<settings, self_params_history, query>>

(***************************************************************************)
(* The text of a string index, character by character.                     *)
(***************************************************************************)
DigitChars == <<"0", "1", "2", "3", "4", "5", "6", "7", "8", "9">>
Digits == {DigitChars[i] : i \in 1..10}
DigitValue(c) == CHOOSE d \in 0..9 : DigitChars[d + 1] = c

\* the texts a caller passes here
Chars == {"0", "1", "-", ":"}
Texts == UNION {[1..n -> Chars] : n \in 0..MaxTextLen}

\* int(text) succeeds: an optional sign and at least one digit
IsIntText(s) ==
    /\ Len(s) >= 1
    /\ LET body == IF s[1] = "-" THEN Tail(s) ELSE s
       IN  /\ Len(body) >= 1
           /\ \A i \in 1..Len(body) : body[i] \in Digits

RECURSIVE DecimalValue(_)
DecimalValue(body) ==
    IF body = << >> THEN 0
    ELSE 10 * DecimalValue(SubSeq(body, 1, Len(body) - 1))
         + DigitValue(body[Len(body)])

int(s) == IF s[1] = "-" THEN 0 - DecimalValue(Tail(s)) ELSE DecimalValue(s)

\* index.split(':')
RECURSIVE str_split(_, _)
str_split(s, part) ==
    IF s = << >> THEN <<part>>
    ELSE IF Head(s) = ":" THEN <<part>> \o str_split(Tail(s), << >>)
    ELSE str_split(Tail(s), Append(part, Head(s)))

(***************************************************************************)
(* list[slice(start, stop, step)]: the positions Python selects.           *)
(***************************************************************************)
SliceBound(v, len, step) ==
    LET w == IF v < 0 THEN v + len ELSE v
    IN  IF w < 0 THEN (IF step < 0 THEN -1 ELSE 0)
        ELSE IF w >= len THEN (IF step < 0 THEN len - 1 ELSE len)
        ELSE w

RECURSIVE SliceIndices(_, _, _)
SliceIndices(i, stop, step) ==
    IF (step > 0 /\ i < stop) \/ (step < 0 /\ i > stop)
    THEN <<i>> \o SliceIndices(i + step, stop, step)
    ELSE << >>

SlicePositions(len, ints) ==
    LET step == IF Len(ints) = 3 THEN ints[3] ELSE 1
    IN  SliceIndices(SliceBound(ints[1], len, step),
                     SliceBound(ints[2], len, step), step)

(***************************************************************************)
(* The loss and its gradient, supplied through prepare_optimization_loss   *)
(* (here a^2 + b^2), and jax.vmap, which maps them over a batch in order.  *)
(***************************************************************************)
opt_loss(p) == p.a.v * p.a.v + p.b.v * p.b.v
loss_grad(p) == [p EXCEPT !.a = Fin(2 * p.a.v), !.b = Fin(2 * p.b.v)]
vmap_loss(batch) == [i \in 1..Len(batch) |-> opt_loss(batch[i])]
vmap_grad(batch) == [i \in 1..Len(batch) |-> loss_grad(batch[i])]

\* jnp.array(list of snapshots) stacks arrays; it rejects a dict
CanStack(list) == \A i \in 1..Len(list) : list[i].def = "array"

Raised(text, exc) ==
    [text |-> text, kind |-> exc, param_value |-> << >>,
     loss_value |-> << >>, loss_grad_value |-> << >>]

(***************************************************************************)
(* __getitem__(index) for a str index: what the call returns or raises.    *)
(***************************************************************************)
getitem(history, index) ==
    IF \A i \in 1..Len(index) : index[i] # ":"
    THEN IF ~IsIntText(index) THEN Raised(index, "ValueError")
         ELSE IF history = NoHistory THEN Raised(index, "TypeError")
         ELSE IF ~InRange(history, int(index)) THEN Raised(index, "IndexError")
         ELSE LET param_value == ListItem(history, int(index))
              IN  [text |-> index, kind |-> "single",
                   param_value |-> <<param_value>>,
                   loss_value |-> <<opt_loss(param_value)>>,
                   loss_grad_value |-> <<loss_grad(param_value)>>]
    ELSE LET parts == str_split(index, << >>)
         IN  IF \E i \in 1..Len(parts) : ~IsIntText(parts[i])
             THEN Raised(index, "ValueError")
             ELSE IF Len(parts) > 3 THEN Raised(index, "TypeError")
             ELSE IF history = NoHistory THEN Raised(index, "TypeError")
             ELSE IF Len(parts) = 3 /\ int(parts[3]) = 0
             THEN Raised(index, "ValueError")
             ELSE LET ints == [i \in 1..Len(parts) |-> int(parts[i])]
                      pos == SlicePositions(Len(history), ints)
                      list == [i \in 1..Len(pos) |-> history[pos[i] + 1]]
                  IN  IF ~CanStack(list) THEN Raised(index, "TypeError")
                      ELSE [text |-> index, kind |-> "batch",
                            param_value |-> list,
                            loss_value |-> vmap_loss(list),
                            loss_grad_value |-> vmap_grad(list)]

GetItem ==
    /\ Callable
    /\ query = NoQuery
    /\ \E index \in Texts : query' = getitem(self_params_history, index)
    /\ UNCHANGED <<settings, object, pc, error, config, frame, trace>>

\* the caller is done with the value the query returned
Discard ==
    /\ query # NoQuery
    /\ query' = NoQuery
    /\ UNCHANGED <<settings, object, pc, error, config, frame, trace>>

(***************************************************************************)
(* The accessor on its own: any history a completed run can leave (a       *)
(* non-empty sequence of valid trees of one structure), or none.           *)
(***************************************************************************)
Histories ==
    UNION {[1..n -> {t \in ValidTrees : t.def = d}] :
             n \in 1..(MaxIter + 1), d \in TreeDefs}

QueryInit ==
    /\ settings = [MAX_OPTIMIZATION_RETRIES |-> 0,
                   PERTURBATION_MAGNITUDE |-> Fin(1),
                   OPTIMIZATION_VERBOSITY |-> 0,
                   NUMERICAL_CHECK_FREQUENCY |-> 1]
    /\ \/ /\ self_params_history = NoHistory
          /\ self_params = None
          /\ pc = "idle"
       \/ /\ self_params_history \in Histories
          /\ self_params = self_params_history[Len(self_params_history)]
          /\ pc = "idle"
    /\ error = "none"
    /\ NoFrame
    /\ query = NoQuery

QueryNext ==
    \/ GetItem
    \/ Discard

QuerySpec == QueryInit /\ [][QueryNext]_vars

Next ==
    \/ \E t \in Trees \cup {None} : InitializeParameters(t)
    \/ \E N \in 0..MaxIter : OptimizeStart(N)
    \/ Iterate
    \/ OptimizeFinish
    \/ \E i \in -(MaxIter + 2)..(MaxIter + 1) : UpdateParamsFromOptHistory(i)

Spec == Init /\ [][Next]_vars

(***************************************************************************)
(* The registry is a module-level dict: code that runs while optimize is   *)
(* in progress (the loss traced by the step, a warnings hook, another      *)
(* thread) can assign an option.                                           *)
(***************************************************************************)
SetOption(key, value) ==
    /\ pc = "loop"
    /\ settings[key] # value
    /\ settings' = [settings EXCEPT ![key] = value]
    /\ UNCHANGED <<object, pc, error, config, frame, trace, query>>

(***************************************************************************)
(* The body of the for loop on its own, as a function of the locals it     *)
(* finds at the head of a pass: the body tests the validity of params      *)
(* itself (line 250), so params is any tree of the structure of the last   *)
(* known-good tree; the trace starts empty at that head.                   *)
(***************************************************************************)
\* the key of the run after n draws of a sub-stream (line 258)
RECURSIVE KeyAfter(_)
KeyAfter(n) == IF n = 0 THEN PRNGKey(0) ELSE split(KeyAfter(n - 1), 2)[1]

LoopInit ==
    /\ settings \in SettingsDomain
    /\ max_retries = settings.MAX_OPTIMIZATION_RETRIES
    /\ perturbation_mag = settings.PERTURBATION_MAGNITUDE
    /\ verbosity = settings.OPTIMIZATION_VERBOSITY
    /\ check_freq = settings.NUMERICAL_CHECK_FREQUENCY
    /\ pc = "loop"
    /\ error = "none"
    /\ iteration \in 0..(MaxIter - 1)
    /\ max_iter \in {iteration + 1, iteration + 2} \cap 1..MaxIter
    /\ last_valid_params \in ValidTrees
    /\ last_valid_opt_state = 0
    /\ params \in {t \in Trees : t.def = last_valid_params.def}
    /\ opt_state = (IF params = last_valid_params THEN 0 ELSE 1)
    /\ rng_key \in {KeyAfter(n) : n \in 0..MaxRetries}
    /\ params_history = [j \in 1..iteration |-> last_valid_params]
    /\ self_params = last_valid_params
    /\ self_params_history = NoHistory
    /\ diag = << >> /\ candidates = << >> /\ step_log = << >>
    /\ query = NoQuery

LoopNext ==
    \/ Iterate
    \/ OptimizeFinish
    \/ \E v \in Verbosities : SetOption("OPTIMIZATION_VERBOSITY", v)

LoopSpec == LoopInit /\ [][LoopNext]_vars

(***************************************************************************)
(* What the steps of the current call did.                                 *)
(***************************************************************************)
StepRaised(i) == step_log[i].raised
StepInvalid(i) == ~step_log[i].raised /\ ~_is_params_valid(step_log[i].new_params)
StepValid(i) == ~step_log[i].raised /\ _is_params_valid(step_log[i].new_params)
Steps == 1..Len(step_log)
Completed == pc = "done"

\* C1: a completed call optimize(max_iter = N) installs a history of exactly
\* N + 1 entries, whatever the steps did (valid, invalid, raised).
Thm_C1 == Completed => Len(self_params_history) = max_iter + 1

Wit_C1 ==
    /\ Completed
    /\ max_iter = MaxIter
    /\ Len(self_params_history) = MaxIter + 1
    /\ \E i, j \in Steps : StepRaised(i) /\ StepInvalid(j)

\* C2: optimize raises the fatal precondition error when the parameters
\* are not set (None) and when the initial tree is invalid, before any
\* iteration, any step call and any perturbation attempt.
Thm_C2 ==
    [][(/\ \E N \in 0..MaxIter : OptimizeStart(N)
        /\ (self_params = None \/ ~_is_params_valid(self_params)))
       => /\ pc' = "raised"
          /\ error' = (IF self_params = None THEN NotSet ELSE InitialInvalid)
          /\ iteration' = 0 /\ step_log' = << >> /\ params_history' = << >>
          /\ candidates' = << >> /\ diag' = << >>
          /\ UNCHANGED object]_vars

Wit_C2 ==
    /\ pc = "raised"
    /\ error = InitialInvalid
    /\ self_params \in Trees
    /\ \E x \in {self_params.a, self_params.b} : x.k \in {"nan", "inf"}

\* C3: once the preconditions hold, every pass of the loop is followed by
\* the next pass or, after exactly max_iter passes, by the completion of
\* the call; no outcome of a step ends the loop early or raises, and a
\* further pass or the completion is always possible.
Thm_C3 ==
    /\ [](pc = "loop" => (ENABLED OptimizeFinish) \/ (ENABLED Iterate))
    /\ [][pc = "loop" =>
            /\ error' = "none"
            /\ \/ /\ pc' = "loop"
                  /\ iteration < max_iter
                  /\ iteration' = iteration + 1
                  /\ Len(step_log') = iteration'
               \/ /\ pc' = "done"
                  /\ iteration' = max_iter
                  /\ Len(step_log') = max_iter]_vars

Wit_C3 ==
    /\ Completed
    /\ iteration = MaxIter
    /\ \A i \in Steps : ~StepValid(i)
    /\ \E i, j \in Steps : StepRaised(i) /\ StepInvalid(j)

\* C4: when optimize completes, the active parameters of the object are
\* the last entry of the installed history, and that tree is valid.
Thm_C4 ==
    Completed =>
        /\ self_params = self_params_history[Len(self_params_history)]
        /\ _is_params_valid(self_params)

Wit_C4 ==
    /\ Completed
    /\ Len(step_log) >= 2
    /\ StepValid(1)
    /\ StepInvalid(Len(step_log))
    /\ self_params = step_log[1].new_params
    /\ self_params # self_params_history[1]

\* C10: when the step of an iteration returns a valid result, then after
\* that iteration the current pair and the last known-good pair both equal
\* the pair the step returned.
Thm_C10 ==
    (pc \in {"loop", "done"} /\ Len(step_log) >= 1 /\ StepValid(Len(step_log)))
    => LET out == step_log[Len(step_log)]
       IN  /\ params = out.new_params
           /\ last_valid_params = out.new_params
           /\ opt_state = out.new_opt_state
           /\ last_valid_opt_state = out.new_opt_state

Wit_C10 ==
    /\ pc = "loop"
    /\ Len(step_log) >= 2
    /\ StepValid(Len(step_log))
    /\ ~StepValid(1)
    /\ params # params_history[1]
    /\ last_valid_opt_state = 1

\* C5: an invalid step result is answered by a recovery: once a checked
\* iteration has followed it (check_freq = 1, max_retries >= 1), at least
\* one perturbation attempt on the last known-good parameters was made, at
\* most max_retries per recovery, and a valid candidate that was adopted
\* differs from the invalid tree.
CX_C5 ==
    (/\ pc \in {"loop", "done"}
     /\ max_retries >= 1
     /\ check_freq = 1
     /\ \E i \in Steps : StepInvalid(i) /\ i < Len(step_log))
    => /\ Len(candidates) >= 1
       /\ \A j \in 1..Len(candidates), i \in Steps :
             StepInvalid(i) => candidates[j] # step_log[i].new_params

\* C6: in a run where every step result is invalid and no perturbation
\* gives a usable state, the call returns without raising, the final
\* parameters are the initial ones (the only valid ancestor) and a
\* critical-instability diagnostic was emitted at least once.
CX_C6 ==
    (/\ Completed
     /\ max_iter >= 2
     /\ check_freq = 1
     /\ perturbation_mag = PosInf
     /\ \A i \in Steps : StepInvalid(i))
    => /\ error = "none"
       /\ self_params = self_params_history[1]
       /\ \E j \in 1..Len(diag) : diag[j].ev = "critical"

(***************************************************************************)
(* Reading a query text and writing an index as text.                      *)
(***************************************************************************)
HasColon(text) == \E i \in 1..Len(text) : text[i] = ":"
Parts(text) == str_split(text, << >>)
AllIntParts(text) == \A i \in 1..Len(Parts(text)) : IsIntText(Parts(text)[i])
IsRangeText(text) == HasColon(text) /\ Len(Parts(text)) = 2 /\ AllIntParts(text)

RECURSIVE IntText(_)
IntText(k) ==
    IF k < 0 THEN <<"-">> \o IntText(0 - k)
    ELSE IF k < 10 THEN <<DigitChars[k + 1]>>
    ELSE IntText(k \div 10) \o <<DigitChars[(k % 10) + 1]>>

\* where a range bound lands in a list of the given length
Clamp(v, len) ==
    LET w == IF v < 0 THEN v + len ELSE v
    IN  IF w < 0 THEN 0 ELSE IF w > len THEN len ELSE w

Answered == query.kind # "none" /\ self_params_history # NoHistory

\* C7: for every history and every range start:stop the range query
\* returns the snapshots of the range in order, and at each index k of the
\* range its loss_value and loss_grad_value at position k - start are those
\* the single-index query for k returns.
CX_C7 ==
    (Answered /\ IsRangeText(query.text))
    => LET h == self_params_history
           start == Clamp(int(Parts(query.text)[1]), Len(h))
           stop == Clamp(int(Parts(query.text)[2]), Len(h))
       IN  /\ query.kind = "batch"
           /\ Len(query.param_value) = (IF stop > start THEN stop - start ELSE 0)
           /\ \A k \in start..(stop - 1) :
                 LET single == getitem(h, IntText(k))
                 IN  /\ single.kind = "single"
                     /\ query.param_value[k - start + 1] = h[k + 1]
                     /\ query.loss_value[k - start + 1] = single.loss_value[1]
                     /\ query.loss_grad_value[k - start + 1]
                            = single.loss_grad_value[1]

\* the snapshot at position k, a negative k counting from the end
Snapshot(h, k) == IF k >= 0 THEN h[k + 1] ELSE h[Len(h) + k + 1]

SingleIndexAnswer ==
    (Answered /\ ~HasColon(query.text) /\ IsIntText(query.text))
    => LET h == self_params_history
           k == int(query.text)
       IN  IF -Len(h) <= k /\ k < Len(h)
           THEN /\ query.kind = "single"
                /\ query.param_value = <<Snapshot(h, k)>>
           ELSE query.kind = "IndexError"

\* C8 as stated: a single integer index returns the snapshot at that
\* position (negative from the end) or raises an indexing error when out
\* of range; every range text that is not start:stop with integer bounds
\* raises an error; no query changes the history.
CX_C8 ==
    /\ SingleIndexAnswer
    /\ (Answered /\ HasColon(query.text) /\ ~IsRangeText(query.text))
       => query.kind \notin {"single", "batch"}

\* C8 as amended: a single integer index returns the snapshot at that
\* position (negative from the end) or raises an indexing error when out
\* of range; a range text raises a format error (ValueError) when one of
\* its parts is not an integer or when it has three integer parts with
\* step 0; three integer parts with a non-zero step are taken as a stepped
\* slice and raise no format error; four or more integer parts raise a
\* TypeError; no query changes the history or the active parameters.
Thm_C8 ==
    /\ [](SingleIndexAnswer)
    /\ []((Answered /\ HasColon(query.text))
          => LET parts == Parts(query.text)
             IN  IF ~AllIntParts(query.text) THEN query.kind = "ValueError"
                 ELSE IF Len(parts) > 3 THEN query.kind = "TypeError"
                 ELSE IF Len(parts) = 3 /\ int(parts[3]) = 0
                      THEN query.kind = "ValueError"
                 ELSE query.kind # "ValueError")
    /\ [][UNCHANGED object]_vars

Wit_C8 ==
    /\ Answered
    /\ HasColon(query.text)
    /\ Len(Parts(query.text)) = 3
    /\ query.kind = "batch"
    /\ Len(query.param_value) = 3
    /\ query.param_value[1] # query.param_value[2]

(***************************************************************************)
(* The run that the same seed, initial parameters and step outcomes give   *)
(* on an object that has never run.                                        *)
(***************************************************************************)
FreshLocals(p0) ==
    [max_iter |-> max_iter, max_retries |-> max_retries,
     perturbation_mag |-> perturbation_mag,
     verbosity |-> verbosity, check_freq |-> check_freq,
     params |-> p0, opt_state |-> 0,
     last_valid_params |-> p0, last_valid_opt_state |-> 0,
     rng_key |-> 0, params_history |-> << >>,
     iteration |-> 0, diag |-> << >>, candidates |-> << >>,
     recovery_successful |-> FALSE]

RECURSIVE Replay(_, _)
Replay(f, outs) ==
    IF outs = << >> THEN f ELSE Replay(loop_body(f, Head(outs)), Tail(outs))

Stepped == pc = "loop" /\ Len(step_log') = Len(step_log) + 1
LastOut == step_log[Len(step_log)]
Pair == <<params, opt_state>>
LastValidPair == <<last_valid_params, last_valid_opt_state>>

\* C11: when the step of a pass returns an invalid result, the pass leaves
\* params, opt_state, last_valid_params and last_valid_opt_state as they
\* were: the returned pair is discarded, the known-good pair not updated.
Thm_C11 ==
    [][(Stepped /\ ~LastOut'.raised /\ ~_is_params_valid(LastOut'.new_params))
       => UNCHANGED <<params, opt_state, last_valid_params, last_valid_opt_state>>]_vars

Wit_C11 ==
    /\ pc = "loop"
    /\ Len(step_log) = 2
    /\ StepValid(1) /\ StepInvalid(2)
    /\ params = step_log[1].new_params
    /\ params # params_history[1]
    /\ Pair = <<step_log[1].new_params, 1>>
    /\ LastValidPair = Pair

\* C12: when the step of a pass raises, the call goes on (nothing is
\* propagated) with the current pair set to the last known-good pair, the
\* known-good pair itself unchanged; this also when the step was given a
\* perturbed candidate that a recovery adopted in the same pass.
Thm_C12 ==
    [][(Stepped /\ LastOut'.raised)
       => /\ pc' = "loop" /\ error' = "none"
          /\ iteration' = iteration + 1
          /\ params' = last_valid_params
          /\ opt_state' = last_valid_opt_state
          /\ UNCHANGED <<last_valid_params, last_valid_opt_state>>]_vars

Wit_C12 ==
    /\ pc = "loop"
    /\ Len(step_log) = 1 /\ StepRaised(1)
    /\ Len(candidates) >= 1
    /\ _is_params_valid(candidates[Len(candidates)])
    /\ candidates[Len(candidates)] # last_valid_params
    /\ Pair = LastValidPair

\* the entries of the history of the current call, the terminal one included
History ==
    IF pc = "done" THEN self_params_history ELSE Append(params_history, params)

\* C13: a pass whose step raises or returns an invalid result changes
\* nothing: the history entry recorded after it equals the entry recorded
\* at its start, for every pass and whatever the earlier steps did.
Thm_C13 ==
    pc \in {"loop", "done"} =>
        \A i \in Steps : ~StepValid(i) => History[i + 1] = History[i]

Wit_C13 ==
    /\ Completed
    /\ Len(step_log) = MaxIter
    /\ StepValid(1)
    /\ \A i \in Steps : i > 1 => ~StepValid(i)
    /\ StepRaised(MaxIter)
    /\ History[MaxIter + 1] = History[2]
    /\ History[2] # History[1]

\* the candidates the pass just made has produced, in order
NewCandidates == SubSeq(candidates', Len(candidates) + 1, Len(candidates'))

\* C14: one recovery makes at most max_retries perturbation attempts;
\* every candidate is a perturbation of last_valid_params by the
\* configured magnitude (never of the invalid current params); no attempt
\* follows a valid candidate, so only the last candidate can be valid; a
\* valid candidate is the params the step is given, with opt_state reset to
\* last_valid_opt_state.
Thm_C14 ==
    [][Stepped =>
        LET new == NewCandidates
            n == Len(new)
        IN  /\ n <= max_retries
            /\ \A j \in 1..n : \E k \in 0..(KeyMod - 1) :
                  new[j] = _create_perturbed_params(
                               last_valid_params, perturbation_mag, k)
            /\ \A j \in 1..(n - 1) : ~_is_params_valid(new[j])
            /\ (n >= 1 /\ _is_params_valid(new[n]))
               => /\ (~LastOut'.raised /\ ~_is_params_valid(LastOut'.new_params))
                     => (params' = new[n] /\ opt_state' = last_valid_opt_state)
                  /\ LastOut'.new_opt_state
                        = (IF LastOut'.raised THEN 0 ELSE 1) + last_valid_opt_state]_vars

Wit_C14 ==
    /\ pc = "loop"
    /\ Len(step_log) = 1 /\ StepInvalid(1)
    /\ max_retries = 2
    /\ Len(candidates) = 2
    /\ ~_is_params_valid(candidates[1])
    /\ _is_params_valid(candidates[2])
    /\ params = candidates[2]
    /\ params # last_valid_params
    /\ Pair = <<candidates[2], last_valid_opt_state>>

\* the diagnostics the pass just made has emitted, in order
NewDiag == SubSeq(diag', Len(diag) + 1, Len(diag'))

\* the pass just made was a checked one that found params invalid
RecoveryEntered ==
    Stepped /\ iteration % check_freq = 0 /\ ~_is_params_valid(params)

\* C15: when a recovery ends with every one of its max_retries candidates
\* invalid, the call goes on: a critical-instability event is emitted at
\* every verbosity (0 included), the step of the pass is made from the
\* last known-good pair, and no invalid candidate is left as params.
Thm_C15 ==
    [][(RecoveryEntered
        /\ \A j \in 1..Len(NewCandidates) : ~_is_params_valid(NewCandidates[j]))
       => /\ pc' = "loop" /\ error' = "none"
          /\ Len(NewCandidates) = max_retries
          /\ \E j \in 1..Len(NewDiag) :
                NewDiag[j] = Event("critical", iteration, max_retries)
          /\ _is_params_valid(params')
          /\ LastOut'.new_opt_state
                = (IF LastOut'.raised THEN 0 ELSE 1) + last_valid_opt_state
          /\ (LastOut'.raised \/ ~_is_params_valid(LastOut'.new_params))
             => (params' = last_valid_params /\ opt_state' = last_valid_opt_state)]_vars

Wit_C15 ==
    /\ pc = "loop"
    /\ Len(step_log) = 1 /\ StepInvalid(1)
    /\ verbosity = 0 /\ settings.OPTIMIZATION_VERBOSITY = 0
    /\ max_retries = 2
    /\ Len(candidates) = 2
    /\ \A j \in 1..2 : ~_is_params_valid(candidates[j])
    /\ diag = <<Event("critical", iteration - 1, 2)>>
    /\ ~_is_params_valid(params_history[Len(params_history)])
    /\ Pair = LastValidPair

RecoveryEvents == {"retry_warning", "retry_debug", "recovered", "critical"}

\* the pass just made gave the step the pair it found at its head
StepFromCurrentPair ==
    /\ LastOut'.new_opt_state = (IF LastOut'.raised THEN 0 ELSE 1) + opt_state
    /\ (~LastOut'.raised /\ ~_is_params_valid(LastOut'.new_params))
       => UNCHANGED <<params, opt_state>>

\* C16: a pass at an iteration i with i mod check_freq # 0 makes no
\* validity check and no recovery, whatever params is: after the history
\* append it gives the step the current pair; so does a checked pass that
\* finds params valid; a checked pass that finds params invalid makes a
\* recovery (attempts, and a success or a critical event) before the step.
Thm_C16 ==
    [][Stepped =>
        /\ params_history' = Append(params_history, params)
        /\ IF iteration % check_freq = 0 /\ ~_is_params_valid(params)
           THEN /\ Len(NewCandidates) >= (IF max_retries >= 1 THEN 1 ELSE 0)
                /\ \/ /\ NewCandidates # << >>
                      /\ _is_params_valid(NewCandidates[Len(NewCandidates)])
                   \/ \E j \in 1..Len(NewDiag) : NewDiag[j].ev = "critical"
                /\ LastOut'.new_opt_state
                      = (IF LastOut'.raised THEN 0 ELSE 1) + last_valid_opt_state
           ELSE /\ NewCandidates = << >>
                /\ \A j \in 1..Len(NewDiag) : NewDiag[j].ev \notin RecoveryEvents
                /\ UNCHANGED rng_key
                /\ StepFromCurrentPair]_vars

Wit_C16 ==
    /\ pc = "loop"
    /\ check_freq = 2 /\ iteration = 2 /\ max_retries >= 1
    /\ Len(step_log) = 1 /\ StepInvalid(1)
    /\ ~_is_params_valid(params)
    /\ params = params_history[Len(params_history)]
    /\ opt_state = last_valid_opt_state + 1
    /\ candidates = << >>
    /\ diag = << >>

Count(seq, ev) == Cardinality({j \in 1..Len(seq) : seq[j].ev = ev})

RECURSIVE AttemptDiag(_, _, _, _)
AttemptDiag(v, it, j, n) ==
    IF j > n THEN << >>
    ELSE (IF v >= 1 THEN <<Event("retry_warning", it, j)>> ELSE << >>)
         \o (IF v >= 2 THEN <<Event("retry_debug", it, j)>> ELSE << >>)
         \o AttemptDiag(v, it, j + 1, n)

DiagOf(v, it, retries, cands, entered, out) ==
    LET n == Len(cands)
        ok == n >= 1 /\ _is_params_valid(cands[n])
    IN  AttemptDiag(v, it, 1, n)
        \o (IF ok /\ v >= 1 THEN <<Event("recovered", it, n)>> ELSE << >>)
        \o (IF entered /\ ~ok THEN <<Event("critical", it, retries)>> ELSE << >>)
        \o (IF v = 0 THEN << >>
            ELSE IF out.raised THEN <<Event("step_failed", it, 0)>>
            ELSE IF ~_is_params_valid(out.new_params)
                 THEN <<Event("invalid_step", it, 0)>>
            ELSE << >>)

Thm_C18 ==
    [][/\ (\E N \in 0..MaxIter : OptimizeStart(N)) /\ pc' = "loop"
          => (params_history' = << >> /\ params' = self_params)
       /\ pc = "loop"
          => /\ Len(params_history) = iteration
             /\ Len(params_history) >= 1 => params_history[1] = self_params
             /\ IF pc' = "loop"
                THEN params_history' = Append(params_history, params)
                ELSE /\ self_params_history' = Append(params_history, params)
                     /\ self_params' = params
                     /\ Len(self_params_history') = max_iter + 1
                     /\ self_params_history'[1]
                          = (IF max_iter = 0 THEN params ELSE self_params)]_vars

Wit_C18 ==
    /\ Completed
    /\ Len(self_params_history) = 3
    /\ StepValid(1) /\ StepValid(2)
    /\ self_params_history[1] # self_params_history[2]
    /\ self_params_history[2] = step_log[1].new_params
    /\ self_params_history[3] = step_log[2].new_params
    /\ self_params_history[3] # self_params_history[2]
    /\ self_params = self_params_history[3]

\* C20: in every run, whatever the steps return or raise, the working
\* params is valid at the head of every pass and after the loop, every
\* entry of the history is a valid tree, and last_valid_params is valid.
Thm_C20 ==
    /\ pc = "loop" =>
          /\ _is_params_valid(params)
          /\ _is_params_valid(last_valid_params)
          /\ \A i \in 1..Len(params_history) : _is_params_valid(params_history[i])
    /\ Completed =>
          /\ _is_params_valid(params)
          /\ _is_params_valid(last_valid_params)
          /\ \A i \in 1..Len(self_params_history) :
                _is_params_valid(self_params_history[i])

Wit_C20 ==
    /\ Completed
    /\ Len(step_log) = MaxIter
    /\ StepInvalid(1)
    /\ StepValid(MaxIter)
    /\ self_params_history[2] = self_params_history[1]
    /\ params = step_log[MaxIter].new_params
    /\ params = last_valid_params
    /\ params # self_params_history[1]

\* what a step of the model is, read from the control state
Completes == pc = "loop" /\ pc' = "done"
FailsPrecondition == Callable /\ pc' = "raised" /\ error' \in {NotSet, InitialInvalid}
SetsParams == Callable /\ pc' = "idle"

\* what a completed call leaves: the list built by the call, whole, with
\* the params that were active when the call began as its first entry
Installed ==
    /\ self_params_history' = Append(params_history, params)
    /\ Len(self_params_history') = max_iter + 1
    /\ self_params_history'[1] = self_params
    /\ self_params' = self_params_history'[max_iter + 1]

\* C21 as stated: the stored history and the active params of the object
\* change only when an optimize call completes; a call that fails a
\* precondition leaves both as they were; a completed call replaces the
\* stored history as a whole by a history whose first entry is the params
\* that were active when the call began.
CX_C21 ==
    [][/\ (object' # object) => Completes
       /\ FailsPrecondition => UNCHANGED object
       /\ Completes => Installed]_vars

\* C21 as amended: the stored history changes only when an optimize call
\* completes; the active params change only then or by
\* initialize_parameters and update_params_from_opt_history, never while
\* a call of optimize is in progress; a call that fails a precondition
\* leaves both as they were; a completed call replaces the stored history
\* as a whole by a history whose first entry is the params that were
\* active when the call began.
Thm_C21 ==
    [][/\ (self_params_history' # self_params_history) => Completes
       /\ (self_params' # self_params) => (Completes \/ SetsParams)
       /\ (pc = "loop" /\ pc' = "loop") => UNCHANGED object
       /\ FailsPrecondition => UNCHANGED object
       /\ Completes => Installed]_vars

Wit_C21 ==
    /\ pc = "raised"
    /\ error = InitialInvalid
    /\ Len(self_params_history) = MaxIter + 1
    /\ self_params_history[1] # self_params_history[MaxIter + 1]
    /\ self_params \in Trees
    /\ ~_is_params_valid(self_params)

====
